---------------------------- MODULE Spec2Model ----------------------------
(***************************************************************************)
(* State-machine model of the ChocoPy code generation driver               *)
(* (src/chocopy/src/core/codegen/mod.rs): the three public entry points    *)
(* gen_object, link and codegen, the Type Usage Analyzer                   *)
(* (CodeSet::used_types_representive) and the Windows path vetting         *)
(* (windows_path_escape).                                                  *)
(*                                                                         *)
(* Representation choices:                                                 *)
(*  - a path is a sequence of units; a unit is an ordinary piece of text,  *)
(*    one of the special characters the vetting looks for, or a piece that *)
(*    is not valid UTF-8;                                                  *)
(*  - a byte vector (Vec<u8>) is a sequence of numbers;                    *)
(*  - the object container (object::write::Object) is a record of its      *)
(*    symbol list, its name -> SymbolId map, the length of every section   *)
(*    and the relocation list;                                             *)
(*  - the DebugWriter is a record of what was registered plus the log of   *)
(*    the calls made on it.                                                *)
(***************************************************************************)
EXTENDS Integers, Sequences, FiniteSets, TLC

VARIABLES
    args,               \* the entry point that was called and its arguments
    pc,                 \* position in the running function
    result,             \* what the entry point returned ("none" while running)
    obj_path,           \* path of the object file (gen_object's obj_path)
    code_set,           \* gen_object: let code_set
    debug,              \* gen_object: let mut debug (DebugWriter)
    obj,                \* gen_object: let mut obj (Object)
    section_map,        \* gen_object: chunk name -> (section, offset)
    data_id,            \* gen_object: let mut data_id
    cur,                \* gen_object: position of the running for loop (chunk, link)
    debug_chunks,       \* gen_object: let debug_chunks
    debug_section_map,  \* gen_object: debug chunk name -> section
    lnk,                \* link: lib_path, vcvarsall, batch_content, bat_path, ld_output
    fs,                 \* the files on disk: set of [path, content]
    procs               \* the child processes started so far, in order

goVars == <<code_set, debug, obj, section_map, data_id, cur, debug_chunks, debug_section_map>>
inVars == <<args>>
vars == <<args, pc, result, obj_path, code_set, debug, obj,
          section_map, data_id, cur, debug_chunks, debug_section_map, lnk, fs, procs>>

-----------------------------------------------------------------------------
(* Names for special symbols (mod.rs 18-43) *)

BUILTIN_ALLOC_OBJ == "$alloc_obj"
BUILTIN_DIV_ZERO == "$div_zero"
BUILTIN_OUT_OF_BOUND == "$out_of_bound"
BUILTIN_NONE_OP == "$none_op"
BUILTIN_LEN == "$len"
BUILTIN_INPUT == "$input"
BUILTIN_PRINT == "$print"
BUILTIN_INIT == "$init"
BUILTIN_CHOCOPY_MAIN == "$chocopy_main"
GLOBAL_SECTION == "$global"

Platforms == {"Windows", "Linux", "Macos"}

-----------------------------------------------------------------------------
(* Paths *)

Backslash == "\\"
Slash == "/"
DQuote == "\""
SQuote == "'"
Caret == "^"
Control == "<control>"      \* a character c with c.is_control()
Invalid == "<invalid>"      \* a piece of an OsStr that is not valid UTF-8

Some(v) == [some |-> TRUE, val |-> v]
Nothing == [some |-> FALSE, val |-> <<>>]

\* Path::to_str: None when the path is not valid UTF-8
to_str(p) == IF \E i \in 1..Len(p) : p[i] = Invalid THEN Nothing ELSE Some(p)

\* A faulty variant of windows_path_escape: the trailing backslash is not looked for.
windows_path_escape_no_tail(p) ==
    LET s == to_str(p) IN
    IF ~s.some THEN [ok |-> FALSE, val |-> <<>>]
    ELSE IF \E i \in 1..Len(s.val) : s.val[i] \in {DQuote, SQuote, Caret, Control}
         THEN [ok |-> FALSE, val |-> <<>>]
         ELSE [ok |-> TRUE, val |-> s.val]

\* windows_path_escape: Err(PathError) or Ok(the path as a string)
windows_path_escape(p) ==
    LET s == to_str(p) IN
    IF ~s.some THEN [ok |-> FALSE, val |-> <<>>]
    ELSE IF \/ \E i \in 1..Len(s.val) : s.val[i] \in {DQuote, SQuote, Caret, Control}
            \/ (Len(s.val) > 0 /\ s.val[Len(s.val)] = Backslash)
         THEN [ok |-> FALSE, val |-> <<>>]
         ELSE [ok |-> TRUE, val |-> s.val]

Separator(platform) == IF platform = "Windows" THEN Backslash ELSE Slash

IsSeparator(platform, u) ==
    IF platform = "Windows" THEN u \in {Backslash, Slash} ELSE u = Slash

\* PathBuf::push / Path::join of a relative component
Push(platform, p, name) ==
    IF Len(p) = 0 \/ IsSeparator(platform, p[Len(p)])
    THEN Append(p, name)
    ELSE Append(Append(p, Separator(platform)), name)

\* index of the last separator of p, 0 when there is none
LastSep(platform, p) ==
    LET S == {i \in 1..Len(p) : IsSeparator(platform, p[i])}
    IN IF S = {} THEN 0 ELSE CHOOSE i \in S : \A j \in S : j <= i

\* Path::parent, for a path that does not end in a separator
Parent(platform, p) ==
    IF LastSep(platform, p) = 0 THEN Nothing
    ELSE Some(SubSeq(p, 1, LastSep(platform, p) - 1))

RECURSIVE NthAncestor(_, _, _)
\* Path::ancestors().nth(n)
NthAncestor(platform, p, n) ==
    IF n = 0 THEN Some(p)
    ELSE LET q == Parent(platform, p) IN
         IF q.some THEN NthAncestor(platform, q.val, n - 1) ELSE Nothing

\* PathBuf::set_file_name
SetFileName(platform, p, name) ==
    IF LastSep(platform, p) = 0 THEN <<name>>
    ELSE Append(SubSeq(p, 1, LastSep(platform, p)), name)

-----------------------------------------------------------------------------
(* Data model (mod.rs 52-225) *)

TypeDebug(core_name, array_level) ==
    [core_name |-> core_name, array_level |-> array_level]

\* TypeDebug::class_type
class_type(name) == TypeDebug(name, 0)

VarDebug(name, var_type) == [name |-> name, var_type |-> var_type]

ProcedureDebug(return_type, params, locals) ==
    [return_type |-> return_type, params |-> params, locals |-> locals]

NoProcedure == ProcedureDebug(class_type("<None>"), <<>>, <<>>)

\* ChunkExtra::Procedure(procedure) and ChunkExtra::Data { writable }
ExtraProcedure(procedure) ==
    [tag |-> "Procedure", writable |-> FALSE, procedure |-> procedure]
ExtraData(writable) ==
    [tag |-> "Data", writable |-> writable, procedure |-> NoProcedure]

\* ChunkLinkTarget::Symbol(name, addend) and ChunkLinkTarget::Data(bytes)
TargetSymbol(name, addend) ==
    [tag |-> "Symbol", name |-> name, addend |-> addend, data |-> <<>>]
TargetData(bytes) ==
    [tag |-> "Data", name |-> "", addend |-> 0, data |-> bytes]

ChunkLink(pos, to) == [pos |-> pos, to |-> to]

Chunk(name, code, links, extra) ==
    [name |-> name, code |-> code, links |-> links, extra |-> extra]

ClassDebug(size, attributes) == [size |-> size, attributes |-> attributes]

CodeSet(chunks, global_size, globals_debug, classes_debug) ==
    [chunks |-> chunks, global_size |-> global_size,
     globals_debug |-> globals_debug, classes_debug |-> classes_debug]

DebugChunkLink(link_type, pos, to, size) ==
    [link_type |-> link_type, pos |-> pos, to |-> to, size |-> size]

DebugChunk(name, code, links, discardable) ==
    [name |-> name, code |-> code, links |-> links, discardable |-> discardable]

RECURSIVE Bytes(_)
\* a byte vector of n bytes
Bytes(n) == IF n = 0 THEN <<>> ELSE Append(Bytes(n - 1), 0)

NoClasses == [c \in {} |-> ClassDebug(0, <<>>)]
EmptyCodeSet == CodeSet(<<>>, 0, <<>>, NoClasses)

-----------------------------------------------------------------------------
(* Type Usage Analyzer (mod.rs 137-144, 212-217, 227-271) *)

RECURSIVE VarTypes(_)
\* vars.iter().map(|v| &v.var_type)
VarTypes(vs) ==
    IF vs = <<>> THEN <<>> ELSE <<Head(vs).var_type>> \o VarTypes(Tail(vs))

\* ProcedureDebug::used_types
procedure_used_types(procedure) ==
    <<procedure.return_type>> \o VarTypes(procedure.params) \o VarTypes(procedure.locals)

\* ClassDebug::used_types
class_used_types(class) == VarTypes(class.attributes)

RECURSIVE ChunksUsedTypes(_)
\* chunks.iter().filter_map(procedure.used_types()).flatten()
ChunksUsedTypes(chunks) ==
    IF chunks = <<>> THEN <<>>
    ELSE (IF Head(chunks).extra.tag = "Procedure"
          THEN procedure_used_types(Head(chunks).extra.procedure)
          ELSE <<>>) \o ChunksUsedTypes(Tail(chunks))

RECURSIVE ClassesUsedTypes(_, _)
\* classes_debug.iter().flat_map(class.used_types()), the HashMap iterated in `order`
ClassesUsedTypes(classes_debug, order) ==
    IF order = <<>> THEN <<>>
    ELSE class_used_types(classes_debug[Head(order)])
         \o ClassesUsedTypes(classes_debug, Tail(order))

\* the orders in which a HashMap with key set S can be iterated
IterationOrders(S) ==
    {o \in [1..Cardinality(S) -> S] : \A i, j \in 1..Cardinality(S) : i # j => o[i] # o[j]}

\* CodeSet::used_types
used_types(cs, order) ==
    ChunksUsedTypes(cs.chunks) \o VarTypes(cs.globals_debug)
        \o ClassesUsedTypes(cs.classes_debug, order)

\* array_level_map.entry(name).or_insert(0)
or_insert(m, name, v) == IF name \in DOMAIN m THEN m ELSE (name :> v) @@ m

Max(a, b) == IF a >= b THEN a ELSE b

\* A faulty variant of level_step: a later use overwrites the level of an earlier one.
level_step_overwrite(m, type_used) ==
    (type_used.core_name :> type_used.array_level) @@ m

\* one turn of the loop of used_types_representive (mod.rs 252-258)
level_step(m, type_used) ==
    IF type_used.core_name \in DOMAIN m
    THEN [m EXCEPT ![type_used.core_name] = Max(@, type_used.array_level)]
    ELSE (type_used.core_name :> type_used.array_level) @@ m

RECURSIVE LevelMap(_, _)
LevelMap(m, types) ==
    IF types = <<>> THEN m ELSE LevelMap(level_step(m, Head(types)), Tail(types))

EmptyLevelMap == [n \in {} |-> 0]

\* A faulty variant of base_entries: the entry for <None> is forgotten.
base_entries_no_none(m) ==
    or_insert(or_insert(or_insert(or_insert(m, "int", 0), "str", 0), "bool", 0), "object", 0)

\* the five unconditional entries (mod.rs 259-263)
base_entries(m) ==
    or_insert(or_insert(or_insert(or_insert(or_insert(m,
        "int", 0), "str", 0), "bool", 0), "object", 0), "<None>", 0)

TypeDebugRepresentive(core_name, max_array_level) ==
    [core_name |-> core_name, max_array_level |-> max_array_level]

\* CodeSet::used_types_representive, as the set of what the iterator yields
used_types_representive(cs, order) ==
    LET m == base_entries(LevelMap(EmptyLevelMap, used_types(cs, order)))
    IN {TypeDebugRepresentive(n, m[n]) : n \in DOMAIN m}

-----------------------------------------------------------------------------
(* The object container (object::write::Object, used at mod.rs 356-580) *)

EmptyMap == [n \in {} |-> 0]

\* Object::new
EmptyObject ==
    [symbols |-> <<>>, symbol_map |-> EmptyMap, symbol_map_sections |-> EmptyMap,
     sections |-> EmptyMap, relocations |-> <<>>]

Symbol(name, value, size, kind, scope, section) ==
    [name |-> name, value |-> value, size |-> size, kind |-> kind, scope |-> scope,
     section |-> section]

Undefined == "Undefined"

\* Object::add_symbol: the new SymbolId is the symbol's index; the name now maps to it
add_symbol(o, sym) ==
    [o EXCEPT !.symbols = Append(@, sym),
              !.symbol_map = (sym.name :> (Len(o.symbols) + 1)) @@ @]

\* the SymbolId add_symbol is about to return
next_symbol_id(o) == Len(o.symbols) + 1

\* Object::symbol_id: 0 stands for None
symbol_id(o, name) == IF name \in DOMAIN o.symbol_map THEN o.symbol_map[name] ELSE 0

\* Object::section_id / Object::add_section: the section exists from now on
section_id(o, section) ==
    IF section \in DOMAIN o.sections THEN o
    ELSE [o EXCEPT !.sections = (section :> 0) @@ @]

AlignUp(n, align) == ((n + align - 1) \div align) * align

\* the offset Object::append_section_data returns
append_offset(o, section, align) == AlignUp(o.sections[section], align)

\* Object::append_section_data
append_section_data(o, section, data, align) ==
    [o EXCEPT !.sections[section] = append_offset(o, section, align) + Len(data)]

\* Object::add_symbol_bss: reserve size bytes and bind the symbol to them
add_symbol_bss(o, id, section, size, align) ==
    [o EXCEPT !.sections[section] = append_offset(o, section, align) + size,
              !.symbols[id].section = section,
              !.symbols[id].value = append_offset(o, section, align),
              !.symbols[id].size = size]

Relocation(offset, size, kind, encoding, symbol, addend) ==
    [offset |-> offset, size |-> size, kind |-> kind, encoding |-> encoding,
     symbol |-> symbol, addend |-> addend]

\* Object::add_relocation, when it returns Ok
add_relocation(o, section, relocation) ==
    [o EXCEPT !.relocations = Append(@, [section |-> section, rel |-> relocation])]

-----------------------------------------------------------------------------
(* The Debug Writer (trait DebugWriter of debug.rs, used at mod.rs 331-534).    *)
(* calls is the log of the calls made on it; the log outlives the writer.    *)

NoDebug == [alive |-> FALSE, calls |-> <<>>, types |-> {}, classes |-> {},
            globals |-> <<>>, chunks |-> <<>>]

\* Codeview::new / Dwarf::new
NewDebug == [NoDebug EXCEPT !.alive = TRUE]

add_type(d, t) == [d EXCEPT !.calls = Append(@, "add_type"), !.types = @ \cup {t}]
add_class(d, class_name) ==
    [d EXCEPT !.calls = Append(@, "add_class"), !.classes = @ \cup {class_name}]
add_global(d, g) == [d EXCEPT !.calls = Append(@, "add_global"), !.globals = Append(@, g)]
add_chunk(d, chunk) ==
    [d EXCEPT !.calls = Append(@, "add_chunk"), !.chunks = Append(@, chunk.name)]
finalize(d) == [d EXCEPT !.calls = Append(@, "finalize"), !.alive = FALSE]

\* Codeview::new(source_path, current_dir, obj_path)?: the object path is vetted by
\* the rule of windows_path_escape
codeview_new_ok(obj_path_str) == windows_path_escape(obj_path_str).ok

-----------------------------------------------------------------------------
(* gen_object (mod.rs 316-583): the pieces of its body *)

\* obj_path.as_os_str().to_str().unwrap_or("") (mod.rs 335)
obj_path_str(p) == IF to_str(p).some THEN to_str(p).val ELSE <<>>

\* A faulty variant of ImportedFunctions: $print is not imported.
ImportedFunctionsNoPrint ==
    <<BUILTIN_ALLOC_OBJ, BUILTIN_DIV_ZERO, BUILTIN_OUT_OF_BOUND, BUILTIN_NONE_OP,
      BUILTIN_LEN, BUILTIN_INPUT, BUILTIN_INIT>>

\* the standard library functions, in the order of their import (mod.rs 372-379)
ImportedFunctions ==
    <<BUILTIN_ALLOC_OBJ, BUILTIN_DIV_ZERO, BUILTIN_OUT_OF_BOUND, BUILTIN_NONE_OP,
      BUILTIN_LEN, BUILTIN_PRINT, BUILTIN_INPUT, BUILTIN_INIT>>

\* the closure import_function (mod.rs 359-370)
import_function(o, name) ==
    add_symbol(o, Symbol(name, 0, 0, "Text", "Linkage", Undefined))

RECURSIVE import_functions(_, _)
import_functions(o, names) ==
    IF names = <<>> THEN o
    ELSE import_functions(import_function(o, Head(names)), Tail(names))

RECURSIVE FeedSet(_, _, _)
\* debug.<call>(x) once for every x of the set S, in the iterator's order
FeedSet(d, S, call) ==
    IF S = {} THEN d
    ELSE LET x == CHOOSE y \in S : TRUE
         IN FeedSet(IF call = "add_type" THEN add_type(d, x) ELSE add_class(d, x),
                    S \ {x}, call)

\* A faulty variant of feed_types: the five base types are taken for known to the writer.
feed_types_user_only(d, cs, order) ==
    FeedSet(d, {t \in used_types_representive(cs, order) :
                    t.core_name \notin {"int", "str", "bool", "object", "<None>"}},
            "add_type")

\* for t in code_set.used_types_representive() { debug.add_type(t) } (mod.rs 385-387)
feed_types(d, cs, order) == FeedSet(d, used_types_representive(cs, order), "add_type")

\* for (class_name, classes_debug) in code_set.classes_debug { .. } (mod.rs 389-391)
feed_classes(d, cs) == FeedSet(d, DOMAIN cs.classes_debug, "add_class")

RECURSIVE feed_globals(_, _)
\* for global_debug in code_set.globals_debug { .. } (mod.rs 410-412)
feed_globals(d, globals) ==
    IF globals = <<>> THEN d
    ELSE feed_globals(add_global(d, Head(globals)), Tail(globals))

\* the global section: symbol $global bound to the uninitialized data (mod.rs 394-407)
global_symbol(o, cs) ==
    LET o1 == section_id(o, "UninitializedData")
        o2 == add_symbol(o1, Symbol(GLOBAL_SECTION, 0, cs.global_size, "Data",
                                    "Compilation", Undefined))
    IN add_symbol_bss(o2, Len(o2.symbols), "UninitializedData", cs.global_size, 8)

\* the sections chunks can feed to (mod.rs 420-423)
chunk_sections(o) ==
    section_id(section_id(section_id(section_id(o,
        "Text"), "Data"), "ReadOnlyData"), "ReadOnlyDataWithRel")

\* A faulty variant of chunk_section: read-only data never goes to the section with relocations.
chunk_section_no_rel(chunk) ==
    IF chunk.extra.tag = "Procedure" THEN "Text"
    ELSE IF chunk.extra.writable THEN "Data"
    ELSE "ReadOnlyData"

\* section attributes of a chunk (mod.rs 432-449)
chunk_section(chunk) ==
    IF chunk.extra.tag = "Procedure" THEN "Text"
    ELSE IF chunk.extra.writable THEN "Data"
    ELSE IF chunk.links = <<>> THEN "ReadOnlyData"
    ELSE "ReadOnlyDataWithRel"

chunk_align(chunk) == IF chunk.extra.tag = "Procedure" THEN 1 ELSE 8

chunk_kind(chunk) == IF chunk.extra.tag = "Procedure" THEN "Text" ELSE "Data"

\* A faulty variant of chunk_scope: every procedure is exposed.
chunk_scope_procedures(chunk) ==
    IF chunk.name = BUILTIN_CHOCOPY_MAIN \/ chunk.extra.tag = "Procedure"
    THEN "Linkage" ELSE "Compilation"

\* only the entry point is exposed in linkage scope (mod.rs 452-456)
chunk_scope(chunk) ==
    IF chunk.name = BUILTIN_CHOCOPY_MAIN THEN "Linkage" ELSE "Compilation"

\* the first loop's body on the object (mod.rs 458-468)
define_chunk(o, chunk) ==
    LET section == chunk_section(chunk)
        offset == append_offset(o, section, chunk_align(chunk))
    IN add_symbol(append_section_data(o, section, chunk.code, chunk_align(chunk)),
                  Symbol(chunk.name, offset, Len(chunk.code), chunk_kind(chunk),
                         chunk_scope(chunk), section))

\* relocation attributes by the kind of the source chunk (mod.rs 482-492)
reloc_size(chunk) == IF chunk.extra.tag = "Procedure" THEN 32 ELSE 64
reloc_kind(chunk) == IF chunk.extra.tag = "Procedure" THEN "Relative" ELSE "Absolute"
reloc_encoding(chunk) ==
    IF chunk.extra.tag = "Procedure" THEN "X86RipRelative" ELSE "Generic"

\* A faulty variant of reloc_addend: the RIP bias is forgotten.
reloc_addend_no_bias(chunk) == 0

reloc_addend(chunk) == IF chunk.extra.tag = "Procedure" THEN -4 ELSE 0

\* format!("$str{}", data_id) (mod.rs 499)
str_name(id) == "$str" \o ToString(id)

\* the object after the target of a link was resolved (mod.rs 494-517)
link_object(o, link, id) ==
    IF link.to.tag = "Symbol" THEN o
    ELSE add_symbol(append_section_data(o, "ReadOnlyData", link.to.data, 1),
                    Symbol(str_name(id), append_offset(o, "ReadOnlyData", 1), 0, "Data",
                           "Compilation", "ReadOnlyData"))

\* the SymbolId a link resolves to, 0 when symbol_id(..) is None (mod.rs 494-517)
link_symbol(o, link) ==
    IF link.to.tag = "Symbol" THEN symbol_id(o, link.to.name) ELSE next_symbol_id(o)

\* A faulty variant of link_symbol_addend: an ad hoc datum is addressed past its bytes.
link_symbol_addend_len(link) ==
    IF link.to.tag = "Symbol" THEN link.to.addend ELSE Len(link.to.data)

\* symbol_addend of a link (mod.rs 494-517)
link_symbol_addend(link) == IF link.to.tag = "Symbol" THEN link.to.addend ELSE 0

\* the relocation record of a link (mod.rs 520-527)
link_relocation(o, chunk, link, from_offset) ==
    Relocation(from_offset + link.pos, reloc_size(chunk), reloc_kind(chunk),
               reloc_encoding(chunk), link_symbol(o, link),
               reloc_addend(chunk) + link_symbol_addend(link))

\* A faulty variant of link_data_id: every link advances the counter.
link_data_id_every_link(link, id) == id + 1

\* data_id after a link (mod.rs 500)
link_data_id(link, id) == IF link.to.tag = "Data" THEN id + 1 ELSE id

RECURSIVE NextLink(_, _, _)
\* the loop position after (i, j): the next chunk and link, i = 0 when the loops are over
NextLink(chunks, i, j) ==
    IF i > Len(chunks) THEN [i |-> 0, j |-> 0]
    ELSE IF j < Len(chunks[i].links) THEN [i |-> i, j |-> j + 1]
    ELSE NextLink(chunks, i + 1, 0)

\* the section kind of an installed debug chunk (mod.rs 537-541)
debug_section_kind(chunk) == IF chunk.discardable THEN "Debug" ELSE "ReadOnlyData"

RECURSIVE install_debug(_, _)
\* the object after the debug chunks were installed as sections (mod.rs 536-549)
install_debug(o, chunks) ==
    IF chunks = <<>> THEN o
    ELSE LET c == Head(chunks)
             o1 == [o EXCEPT !.sections = (c.name :> 0) @@ @]
         IN install_debug(append_section_data(o1, c.name, c.code, 8), Tail(chunks))

\* debug_section_map after the loop (mod.rs 535-549): name -> section
install_debug_map(chunks) ==
    [n \in {chunks[k].name : k \in 1..Len(chunks)} |-> n]

\* the relocation kind of a debug link (mod.rs 558-563)
debug_reloc_kind(link_type) ==
    CASE link_type = "Absolute" -> "Absolute"
      [] link_type = "SectionRelative" -> "SectionOffset"
      [] link_type = "SectionId" -> "SectionIndex"
      [] link_type = "ImageRelative" -> "ImageOffset"

U8 == 256

\* link.size * 8 on u8 (mod.rs 568): the product, or on overflow a panic (overflow
\* checks on) or the wrapped product (overflow checks off)
debug_reloc_size(size) ==
    IF size * 8 < U8 THEN {[panic |-> FALSE, val |-> size * 8]}
    ELSE {[panic |-> TRUE, val |-> 0], [panic |-> FALSE, val |-> (size * 8) % U8]}

\* Object::section_symbol: the section's symbol, made on first use
section_symbol(o, section) ==
    IF section \in DOMAIN o.symbol_map_sections THEN o
    ELSE [o EXCEPT !.symbols = Append(@, Symbol("", 0, 0, "Section", "Compilation", section)),
                   !.symbol_map_sections = (section :> (Len(o.symbols) + 1)) @@ @]

-----------------------------------------------------------------------------
(* link (mod.rs 586-688) and codegen (mod.rs 691-720): the pieces of their bodies *)

\* the standard library's file name (mod.rs 593-596)
lib_file(platform) ==
    IF platform = "Windows" THEN "chocopy_stdlib.lib" ELSE "libchocopy_stdlib.a"

\* the C runtime libraries on Windows (mod.rs 618-622)
crt_libs(static_lib) ==
    IF static_lib THEN "libvcruntime.lib libucrt.lib libcmt.lib"
    ELSE "vcruntime.lib ucrt.lib msvcrt.lib"

\* vcvarsall.bat from the place of link.exe (mod.rs 604-616)
vcvarsall_path(linker) ==
    IF ~linker.some THEN Nothing
    ELSE LET a == NthAncestor("Windows", linker.val, 7) IN
         IF ~a.some THEN Nothing
         ELSE Some(Push("Windows", Push("Windows", Push("Windows", a.val,
                   "Auxiliary"), "Build"), "vcvarsall.bat"))

\* the four paths of the batch file, vetted in the order of the format! arguments
\* (mod.rs 630-642)
batch_paths(vcvarsall, object, lib, out) ==
    <<windows_path_escape(vcvarsall), windows_path_escape(object),
      windows_path_escape(lib), windows_path_escape(out)>>

\* the command line of cc (mod.rs 657-670)
cc_args(out, object, lib, static_lib) ==
    <<<<"-arch">>, <<"x86_64">>, <<"-o">>, out, object, lib, <<"-pthread">>, <<"-ldl">>>>
        \o (IF static_lib THEN <<<<"-static">>>> ELSE <<>>)

\* what link returns once the linker has run (mod.rs 675-687)
link_result(success) == "Ok"

\* A faulty variant of after_gen_object: the linker runs although gen_object failed.
after_gen_object_always_link(entry, no_link, res) ==
    IF entry = "codegen" /\ ~no_link
    THEN [pc |-> "link_exe", result |-> "none"]
    ELSE [pc |-> "done", result |-> res]

\* where gen_object's return leads (mod.rs 709-713)
after_gen_object(entry, no_link, res) ==
    IF entry = "codegen" /\ res = "Ok" /\ ~no_link
    THEN [pc |-> "link_exe", result |-> "none"]
    ELSE [pc |-> "done", result |-> res]

\* A faulty variant of after_link: the temporary object is left behind.
after_link_keep_object(entry, res) == [pc |-> "done", result |-> res]

\* where link's return leads (mod.rs 715-717)
after_link(entry, res) ==
    IF entry = "codegen" /\ res = "Ok"
    THEN [pc |-> "cg_remove", result |-> "none"]
    ELSE [pc |-> "done", result |-> res]

\* std::fs::write / File::create + write_all
WriteFile(files, p, content) ==
    {f \in files : f.path # p} \cup {[path |-> p, content |-> content]}

\* A faulty variant of RemoveFile: nothing is removed.
RemoveFileNot(files, p) == files

\* std::fs::remove_file
RemoveFile(files, p) == {f \in files : f.path # p}

Exists(files, p) == \E f \in files : f.path = p

-----------------------------------------------------------------------------
(* The programs: what x64::gen_code_set and the Debug Writer yield for them *)

MaxChunks == 2          \* chunks of a CodeSet of the family "object"
MaxLinks == 1           \* links of a CodeSet of the family "object", over all its chunks
MaxArrayLevel == 1      \* array_level of a type of the family "types"
MaxStrings == 2         \* links of a chunk of a CodeSet of the family "strings"

IntType == class_type("int")
NoneType == class_type("<None>")

SampleProcedure == ProcedureDebug(NoneType, <<VarDebug("n", IntType)>>, <<>>)
SampleGlobals == <<VarDebug("x", TypeDebug("int", 2))>>
SampleClasses == ("C" :> ClassDebug(8, <<VarDebug("a", class_type("C"))>>))

OtherNames == <<"f", "g", "h">>

\* the names of n chunks, the entry point being chunk k
ChunkNames(n, k) ==
    SubSeq(OtherNames, 1, k - 1) \o <<BUILTIN_CHOCOPY_MAIN>> \o SubSeq(OtherNames, k, n - 1)

\* what a chunk is besides its name and links
ChunkShapes ==
    {[extra |-> ExtraProcedure(SampleProcedure), code |-> <<>>],
     [extra |-> ExtraProcedure(SampleProcedure), code |-> Bytes(12)],
     [extra |-> ExtraData(TRUE), code |-> Bytes(12)],
     [extra |-> ExtraData(FALSE), code |-> Bytes(12)]}

LinkPositions == {4}
LinkAddends == {8}

\* the links a chunk of a CodeSet with the chunk names `names` may hold: to a chunk
\* of the CodeSet, to an external runtime symbol, or to an ad hoc datum
LinkChoices(names) ==
    {ChunkLink(pos, to) :
        pos \in LinkPositions,
        to \in {TargetSymbol(n, a) :
                    n \in {names[i] : i \in 1..Len(names)} \cup {BUILTIN_PRINT},
                    a \in LinkAddends}
               \cup {TargetData(Bytes(3))}}

\* Chunk invariant: pos + relocation_width <= len(code)
ChunkValid(chunk) ==
    \A j \in 1..Len(chunk.links) :
        chunk.links[j].pos + (reloc_size(chunk) \div 8) <= Len(chunk.code)

\* the valid chunks called names[i] that hold m links
ChunksWith(names, i, m) ==
    {c \in {Chunk(names[i], sh.code, ls, sh.extra) :
                sh \in ChunkShapes, ls \in [1..m -> LinkChoices(names)]} :
        ChunkValid(c)}

RECURSIVE SumTo(_, _)
SumTo(counts, i) == IF i = 0 THEN 0 ELSE counts[i] + SumTo(counts, i - 1)

\* how at most MaxLinks links can be spread over n chunks
LinkCounts(n) == {counts \in [1..n -> 0..MaxLinks] : SumTo(counts, n) <= MaxLinks}

RECURSIVE ChunkSeqs(_, _, _)
\* the sequences of valid chunks called names[i..], chunk j holding counts[j] links
ChunkSeqs(names, counts, i) ==
    IF i > Len(names) THEN {<<>>}
    ELSE {<<c>> \o rest : c \in ChunksWith(names, i, counts[i]),
                          rest \in ChunkSeqs(names, counts, i + 1)}

\* the CodeSets of the family "object" come in parts: the number of chunks, which
\* of them is the entry point, and the number of links of each
ObjectParts ==
    {[n |-> Len(counts), k |-> k, counts |-> counts] :
        k \in 1..MaxChunks,
        counts \in UNION {LinkCounts(n) : n \in 1..MaxChunks}}

ObjectCodeSets(part) ==
    IF part.k > part.n THEN {}
    ELSE {CodeSet(chunks, 16, SampleGlobals, SampleClasses) :
             chunks \in ChunkSeqs(ChunkNames(part.n, part.k), part.counts, 1)}

\* a CodeSet with every kind of chunk and link
SampleCodeSet ==
    CodeSet(<<Chunk("d", Bytes(12), <<ChunkLink(0, TargetSymbol("f", 0))>>, ExtraData(FALSE)),
              Chunk(BUILTIN_CHOCOPY_MAIN, Bytes(12),
                    <<ChunkLink(1, TargetSymbol(BUILTIN_PRINT, 0)),
                      ChunkLink(6, TargetData(Bytes(3)))>>,
                    ExtraProcedure(SampleProcedure)),
              Chunk("f", <<>>, <<>>, ExtraProcedure(SampleProcedure))>>,
            16, SampleGlobals, SampleClasses)

\* the CodeSet of the empty program
EmptyProgramCodeSet ==
    CodeSet(<<Chunk(BUILTIN_CHOCOPY_MAIN, Bytes(1), <<>>,
                    ExtraProcedure(ProcedureDebug(NoneType, <<>>, <<>>)))>>,
            0, <<>>, NoClasses)

DriverCodeSets == {SampleCodeSet, EmptyProgramCodeSet}

TypeChoices ==
    {TypeDebug(n, level) : n \in {"int", "A"}, level \in 0..MaxArrayLevel}

VarChoices == {<<>>} \cup {<<VarDebug("v", t)>> : t \in TypeChoices}

\* CodeSets that differ in the types they use
TypesCodeSets ==
    {CodeSet(<<Chunk("d", Bytes(8), <<ChunkLink(0, TargetData(Bytes(3)))>>, ExtraData(TRUE)),
               Chunk(BUILTIN_CHOCOPY_MAIN, Bytes(12), <<>>,
                     ExtraProcedure(ProcedureDebug(ret, params, locals)))>>,
             8, globals, ("C" :> ClassDebug(8, attributes))) :
        ret \in TypeChoices, params \in VarChoices, locals \in VarChoices,
        globals \in VarChoices, attributes \in VarChoices}

\* what the links of a chunk of the family "strings" point to
StringTargets ==
    {TargetSymbol(BUILTIN_PRINT, 0), TargetData(Bytes(1)), TargetData(Bytes(3))}

\* the targets of the links of one chunk, in the order of its links
TargetSeqs == UNION {[1..m -> StringTargets] : m \in 0..MaxStrings}

\* links to the targets, 8 bytes apart
LinksTo(targets) == [j \in 1..Len(targets) |-> ChunkLink(8 * (j - 1), targets[j])]

\* CodeSets that differ in their links to ad hoc data: a read-only data chunk and
\* the entry point hold the links, a plain read-only chunk lies between them; the
\* part is the targets of the first chunk
StringsCodeSets(part) ==
    {CodeSet(<<Chunk("d", Bytes(32), LinksTo(part), ExtraData(FALSE)),
               Chunk("r", Bytes(5), <<>>, ExtraData(FALSE)),
               Chunk(BUILTIN_CHOCOPY_MAIN, Bytes(32), LinksTo(targets),
                     ExtraProcedure(SampleProcedure))>>,
             0, <<>>, NoClasses) :
        targets \in TargetSeqs}

NoPart == [n |-> 0, k |-> 0, counts |-> <<>>]

\* the parts of a family of programs
ProgramParts(family) ==
    CASE family = "object" -> ObjectParts
      [] family = "strings" -> TargetSeqs
      [] OTHER -> {NoPart}

\* x64::gen_code_set(ast, platform): the CodeSets of a part of a family of programs
ProgramCodeSets(family, part) ==
    CASE family = "driver" -> DriverCodeSets
      [] family = "object" -> ObjectCodeSets(part)
      [] family = "types" -> TypesCodeSets
      [] family = "strings" -> StringsCodeSets(part)
      [] family = "debug" -> {SampleCodeSet}

SampleDebugChunks ==
    <<DebugChunk(".debug_info", Bytes(12),
                 <<DebugChunkLink("Absolute", 0, BUILTIN_CHOCOPY_MAIN, 8),
                   DebugChunkLink("Absolute", 8, ".debug_abbrev", 4)>>, TRUE),
      DebugChunk(".debug_abbrev", Bytes(4), <<>>, TRUE),
      DebugChunk(".eh_frame", Bytes(8),
                 <<DebugChunkLink("Absolute", 0, BUILTIN_CHOCOPY_MAIN, 4)>>, FALSE)>>

SmallDebugChunks ==
    <<DebugChunk(".debug_info", Bytes(4),
                 <<DebugChunkLink("SectionRelative", 0, ".debug_info", 4)>>, TRUE)>>

\* byte counts a DebugChunkLink may hold in its size field (u8)
DebugSizes == {0, 1, 4, 8, 31, 32, 33, 255}

\* debug chunks that differ in the sizes of their links
SizedDebugChunks ==
    {<<DebugChunk(".debug_info", Bytes(16),
                  <<DebugChunkLink("Absolute", 0, BUILTIN_CHOCOPY_MAIN, s1),
                    DebugChunkLink("SectionRelative", 8, ".debug_info", s2)>>, TRUE)>> :
        s1 \in DebugSizes, s2 \in DebugSizes}

\* DebugWriter::finalize: the debug chunks of a family of programs
ProgramDebugChunks(family) ==
    CASE family = "driver" -> {SampleDebugChunks, <<>>}
      [] family = "object" -> {SmallDebugChunks}
      [] family = "types" -> {SmallDebugChunks}
      [] family = "strings" -> {SmallDebugChunks}
      [] family = "debug" -> SizedDebugChunks

-----------------------------------------------------------------------------
(* gen_object: the steps *)

NoCur == [i |-> 0, j |-> 0]

\* gen_object returns res: its locals are dropped and the caller goes on
GoReturn(res) ==
    /\ code_set' = EmptyCodeSet
    /\ debug' = [NoDebug EXCEPT !.calls = debug.calls]
    /\ obj' = EmptyObject
    /\ section_map' = EmptyMap
    /\ data_id' = 0
    /\ cur' = NoCur
    /\ debug_chunks' = <<>>
    /\ debug_section_map' = EmptyMap
    /\ pc' = after_gen_object(args.entry, args.no_link, res).pc
    /\ result' = after_gen_object(args.entry, args.no_link, res).result
    /\ UNCHANGED <<args, obj_path, lnk, procs>>

\* mod.rs 331-347: the debug section generator
GoNewDebugWriter ==
    /\ pc = "go_debug"
    /\ IF args.platform = "Windows" /\ ~codeview_new_ok(obj_path_str(obj_path))
       THEN GoReturn("PathError") /\ UNCHANGED fs
       ELSE /\ debug' = NewDebug
            /\ pc' = "go_import"
            /\ UNCHANGED <<inVars, result, obj_path, code_set, obj, section_map, data_id,
                           cur, debug_chunks, debug_section_map, lnk, fs, procs>>

\* mod.rs 356-379: the object file generator and the imports
GoImport ==
    /\ pc = "go_import"
    /\ obj' = import_functions(EmptyObject, ImportedFunctions)
    /\ pc' = "go_code_set"
    /\ UNCHANGED <<inVars, result, obj_path, code_set, debug, section_map, data_id,
                   cur, debug_chunks, debug_section_map, lnk, fs, procs>>

\* mod.rs 382: x64::gen_code_set(ast, platform)
GoGenCodeSet ==
    /\ pc = "go_code_set"
    /\ \E part \in ProgramParts(args.program) :
           \E cs \in ProgramCodeSets(args.program, part) : code_set' = cs
    /\ pc' = "go_types"
    /\ UNCHANGED <<args, result, obj_path, debug, obj, section_map, data_id,
                   cur, debug_chunks, debug_section_map, lnk, fs, procs>>

\* mod.rs 385-387
GoFeedTypes ==
    /\ pc = "go_types"
    /\ \E order \in IterationOrders(DOMAIN code_set.classes_debug) :
           debug' = feed_types(debug, code_set, order)
    /\ pc' = "go_classes"
    /\ UNCHANGED <<inVars, result, obj_path, code_set, obj, section_map, data_id,
                   cur, debug_chunks, debug_section_map, lnk, fs, procs>>

\* mod.rs 389-391
GoFeedClasses ==
    /\ pc = "go_classes"
    /\ debug' = feed_classes(debug, code_set)
    /\ pc' = "go_global"
    /\ UNCHANGED <<inVars, result, obj_path, code_set, obj, section_map, data_id,
                   cur, debug_chunks, debug_section_map, lnk, fs, procs>>

\* mod.rs 394-407
GoGlobalSymbol ==
    /\ pc = "go_global"
    /\ obj' = global_symbol(obj, code_set)
    /\ pc' = "go_globals"
    /\ UNCHANGED <<inVars, result, obj_path, code_set, debug, section_map, data_id,
                   cur, debug_chunks, debug_section_map, lnk, fs, procs>>

\* where the relocation loops start, or what follows them (mod.rs 474-476, 534)
StartRelocations(chunks) ==
    IF NextLink(chunks, 1, 0).i = 0
    THEN [pc |-> "go_finalize", cur |-> NoCur]
    ELSE [pc |-> "go_reloc", cur |-> NextLink(chunks, 1, 0)]

\* A faulty variant of after_define: the relocations start once the first chunk is defined.
after_define_one_pass(chunks, i) == StartRelocations(chunks)

\* where the first loop goes after chunk i: to the next chunk, and to the relocations
\* only when every chunk is defined (mod.rs 425, 470-476)
after_define(chunks, i) ==
    IF i < Len(chunks)
    THEN [pc |-> "go_chunk", cur |-> [i |-> i + 1, j |-> 0]]
    ELSE StartRelocations(chunks)

\* mod.rs 410-423: the globals' debug info, section_map and the chunks' sections
GoFeedGlobals ==
    /\ pc = "go_globals"
    /\ debug' = feed_globals(debug, code_set.globals_debug)
    /\ obj' = chunk_sections(obj)
    /\ section_map' = EmptyMap
    /\ IF code_set.chunks = <<>>
       THEN /\ pc' = "go_finalize"
            /\ cur' = NoCur
       ELSE /\ pc' = "go_chunk"
            /\ cur' = [i |-> 1, j |-> 0]
    /\ data_id' = 0
    /\ UNCHANGED <<inVars, result, obj_path, code_set, debug_chunks, debug_section_map,
                   lnk, fs, procs>>

\* mod.rs 425-470: one turn of the first loop over the chunks
GoDefineChunk ==
    /\ pc = "go_chunk"
    /\ LET chunk == code_set.chunks[cur.i] IN
        /\ debug' = add_chunk(debug, chunk)
        /\ obj' = define_chunk(obj, chunk)
        /\ section_map' =
               (chunk.name :> [section |-> chunk_section(chunk),
                               offset |-> append_offset(obj, chunk_section(chunk),
                                                        chunk_align(chunk))])
                   @@ section_map
    /\ pc' = after_define(code_set.chunks, cur.i).pc
    /\ cur' = after_define(code_set.chunks, cur.i).cur
    /\ UNCHANGED <<inVars, result, obj_path, code_set, data_id, debug_chunks,
                   debug_section_map, lnk, fs, procs>>

\* mod.rs 476-530: one turn of the loop over the links of the chunks
GoRelocate ==
    /\ pc = "go_reloc"
    /\ LET chunk == code_set.chunks[cur.i]
           link == chunk.links[cur.j]
           from == section_map[chunk.name]
           next == NextLink(code_set.chunks, cur.i, cur.j)
       IN IF link_symbol(obj, link) = 0
          THEN \* obj.symbol_id(..).unwrap() on None: panic
               /\ GoReturn("panic")
               /\ UNCHANGED fs
          ELSE \E ok \in BOOLEAN :
               IF ok
               THEN /\ obj' = add_relocation(link_object(obj, link, data_id), from.section,
                                  link_relocation(obj, chunk, link, from.offset))
                    /\ data_id' = link_data_id(link, data_id)
                    /\ cur' = next
                    /\ pc' = IF next.i = 0 THEN "go_finalize" ELSE "go_reloc"
                    /\ UNCHANGED <<inVars, result, obj_path, code_set, debug, section_map,
                                   debug_chunks, debug_section_map, lnk, fs, procs>>
               ELSE \* obj.add_relocation(..)? returned Err
                    /\ GoReturn("ObjectError")
                    /\ UNCHANGED fs

\* mod.rs 534-549: finalize the debug writer and install its sections
GoFinalize ==
    /\ pc = "go_finalize"
    /\ \E out \in ProgramDebugChunks(args.program) :
        /\ debug' = finalize(debug)
        /\ debug_chunks' = out
        /\ obj' = install_debug(obj, out)
        /\ debug_section_map' = install_debug_map(out)
        /\ cur' = NextLink(out, 1, 0)
        /\ pc' = IF NextLink(out, 1, 0).i = 0 THEN "go_write" ELSE "go_debug_reloc"
    /\ UNCHANGED <<args, result, obj_path, code_set, section_map, data_id,
                   lnk, fs, procs>>

\* mod.rs 553-576: one turn of the loop over the links of the debug chunks
GoDebugRelocate ==
    /\ pc = "go_debug_reloc"
    /\ LET chunk == debug_chunks[cur.i]
           link == chunk.links[cur.j]
           next == NextLink(debug_chunks, cur.i, cur.j)
           by_symbol == symbol_id(obj, link.to)
       IN IF by_symbol = 0 /\ link.to \notin DOMAIN debug_section_map
          THEN \* debug_section_map[&link.to] on a missing key: panic
               /\ GoReturn("panic")
               /\ UNCHANGED fs
          ELSE \E size \in debug_reloc_size(link.size), ok \in BOOLEAN :
               IF size.panic
               THEN /\ GoReturn("panic")
                    /\ UNCHANGED fs
               ELSE IF ok
               THEN LET o1 == IF by_symbol # 0 THEN obj
                              ELSE section_symbol(obj, debug_section_map[link.to])
                        to == IF by_symbol # 0 THEN by_symbol
                              ELSE o1.symbol_map_sections[debug_section_map[link.to]]
                    IN  /\ obj' = add_relocation(o1, debug_section_map[chunk.name],
                                      Relocation(link.pos, size.val,
                                                 debug_reloc_kind(link.link_type),
                                                 "Generic", to, 0))
                        /\ cur' = next
                        /\ pc' = IF next.i = 0 THEN "go_write" ELSE "go_debug_reloc"
                        /\ UNCHANGED <<inVars, result, obj_path, code_set, debug, section_map,
                                       data_id, debug_chunks, debug_section_map, lnk, fs,
                                       procs>>
               ELSE /\ GoReturn("ObjectError")
                    /\ UNCHANGED fs

ObjectContent == <<<<"object">>>>

\* mod.rs 579-582: output the object file
GoWrite ==
    /\ pc = "go_write"
    /\ \E outcome \in {"create failed", "serialize failed", "write failed", "written"} :
        /\ fs' = CASE outcome = "create failed" -> fs
                   [] outcome \in {"serialize failed", "write failed"} ->
                        WriteFile(fs, obj_path, <<>>)
                   [] outcome = "written" -> WriteFile(fs, obj_path, ObjectContent)
        /\ GoReturn(CASE outcome = "written" -> "Ok"
                      [] outcome = "serialize failed" -> "ObjectError"
                      [] OTHER -> "IoError")

-----------------------------------------------------------------------------
(* The environment of link and codegen *)

\* std::env::temp_dir()
TempDirs(platform) ==
    IF platform = "Windows"
    THEN {<<"C:", Backslash, "Temp">>,
          <<"C:", Backslash, "O", SQuote, "Brien", Backslash, "Temp">>,
          <<"C:", Backslash, "Temp", Backslash>>,
          <<"C:", Backslash, Invalid, Backslash, "Temp">>}
    ELSE {<<Slash, "tmp">>, <<Slash, "tmp", Slash>>}

\* std::env::current_exe() when it succeeds
ExePaths(platform) ==
    IF platform = "Windows"
    THEN {<<"C:", Backslash, "chocopy", Backslash, "chocopy.exe">>,
          <<"C:", Backslash, "a", Caret, "b", Backslash, "chocopy.exe">>,
          <<"C:", Backslash, Invalid, Backslash, "chocopy.exe">>}
    ELSE {<<Slash, "opt", Slash, "chocopy", Slash, "chocopy">>}

\* the place of link.exe below the directory `root`
LinkerBelow(root) ==
    root \o <<Backslash, "VC", Backslash, "Tools", Backslash, "MSVC", Backslash, "14.29",
              Backslash, "bin", Backslash, "Hostx64", Backslash, "x64", Backslash,
              "link.exe">>

\* cc::windows_registry::find_tool("x86_64-pc-windows-msvc", "link.exe")
FoundLinkers ==
    {Nothing,
     Some(LinkerBelow(<<"C:", Backslash, "VS">>)),
     Some(LinkerBelow(<<"C:", Backslash, "V", Control, "S">>)),
     Some(LinkerBelow(<<"C:", Backslash, "V", DQuote, "S">>)),
     Some(<<"C:", Backslash, "bin", Backslash, "link.exe">>)}

ObjName == "chocopy-<rand>.o"       \* format!("chocopy-{}.o", rand::random::<u32>())
BatName == "chocopy-<rand>.bat"     \* format!("chocopy-{}.bat", rand::random::<u32>())

NoLnk == [lib_path |-> <<>>, vcvarsall |-> <<>>, batch |-> <<>>, bat_path |-> <<>>]

Process(program_name, argv, success) ==
    [program |-> program_name, args |-> argv, success |-> success]

-----------------------------------------------------------------------------
(* link: the steps *)

\* link returns res: its locals are dropped and the caller goes on
LinkReturn(res) ==
    /\ lnk' = NoLnk
    /\ pc' = after_link(args.entry, res).pc
    /\ result' = after_link(args.entry, res).result
    /\ UNCHANGED <<inVars, obj_path, goVars>>

\* mod.rs 593-599: find the standard library
LinkFindLibrary ==
    /\ pc = "link_exe"
    /\ \/ \* std::env::current_exe()? returned Err
          /\ LinkReturn("IoError")
          /\ UNCHANGED <<fs, procs>>
       \/ \E exe \in ExePaths(args.platform) :
          /\ lnk' = [lnk EXCEPT !.lib_path =
                         SetFileName(args.platform, exe, lib_file(args.platform))]
          /\ pc' = IF args.platform = "Windows" THEN "link_vcvars" ELSE "link_cc"
          /\ UNCHANGED <<inVars, result, obj_path, goVars, fs, procs>>

\* mod.rs 604-616: find vcvarsall.bat
LinkFindVcvarsall ==
    /\ pc = "link_vcvars"
    /\ \E linker \in FoundLinkers :
        IF ~vcvarsall_path(linker).some
        THEN /\ LinkReturn("ToolChainError")
             /\ UNCHANGED <<fs, procs>>
        ELSE /\ lnk' = [lnk EXCEPT !.vcvarsall = vcvarsall_path(linker).val]
             /\ pc' = "link_batch"
             /\ UNCHANGED <<inVars, result, obj_path, goVars, fs, procs>>

\* mod.rs 630-646: the batch file's content and its path
LinkComposeBatch ==
    /\ pc = "link_batch"
    /\ LET escaped == batch_paths(lnk.vcvarsall, obj_path, lnk.lib_path, args.path) IN
       IF \E k \in 1..4 : ~escaped[k].ok
       THEN /\ LinkReturn("PathError")
            /\ UNCHANGED <<fs, procs>>
       ELSE \E tmp \in TempDirs(args.platform) :
            /\ lnk' = [lnk EXCEPT
                         !.batch = <<escaped[1].val, escaped[2].val, escaped[3].val,
                                     escaped[4].val, <<crt_libs(args.static_lib)>>>>,
                         !.bat_path = Push(args.platform, tmp, BatName)]
            /\ pc' = "link_write_bat"
            /\ UNCHANGED <<inVars, result, obj_path, goVars, fs, procs>>

\* mod.rs 648: std::fs::write(&bat_path, batch_content)?
LinkWriteBatch ==
    /\ pc = "link_write_bat"
    /\ \/ /\ LinkReturn("IoError")
          /\ UNCHANGED <<fs, procs>>
       \/ /\ fs' = WriteFile(fs, lnk.bat_path, lnk.batch)
          /\ pc' = "link_cmd"
          /\ UNCHANGED <<inVars, result, obj_path, goVars, lnk, procs>>

\* mod.rs 650-652: cmd /c <bat_path>
LinkRunCmd ==
    /\ pc = "link_cmd"
    /\ \/ \* Command::output()? returned Err: cmd could not be started
          /\ LinkReturn("IoError")
          /\ UNCHANGED <<fs, procs>>
       \/ \E success \in BOOLEAN :
          /\ procs' = Append(procs, Process("cmd", <<<<"/c">>, lnk.bat_path>>, success))
          /\ pc' = "link_rm_bat"
          /\ UNCHANGED <<inVars, result, obj_path, goVars, lnk, fs>>

\* mod.rs 653: std::fs::remove_file(&bat_path)?
LinkRemoveBatch ==
    /\ pc = "link_rm_bat"
    /\ \/ /\ LinkReturn("IoError")
          /\ UNCHANGED <<fs, procs>>
       \/ /\ fs' = RemoveFile(fs, lnk.bat_path)
          /\ pc' = "link_report"
          /\ UNCHANGED <<inVars, result, obj_path, goVars, lnk, procs>>

\* mod.rs 656-672: cc -arch x86_64 -o <path> <obj> <lib> -pthread -ldl [-static]
LinkRunCc ==
    /\ pc = "link_cc"
    /\ \/ /\ LinkReturn("IoError")
          /\ UNCHANGED <<fs, procs>>
       \/ \E success \in BOOLEAN :
          /\ procs' = Append(procs, Process("cc",
                          cc_args(args.path, obj_path, lnk.lib_path, args.static_lib),
                          success))
          /\ pc' = "link_report"
          /\ UNCHANGED <<inVars, result, obj_path, goVars, lnk, fs>>

\* mod.rs 675-687: report a failed linker and return
LinkReport ==
    /\ pc = "link_report"
    /\ LinkReturn(link_result(procs[Len(procs)].success))
    /\ UNCHANGED <<fs, procs>>

-----------------------------------------------------------------------------
(* codegen: the steps *)

\* mod.rs 699-707: the path of the object file
CodegenObjPath ==
    /\ pc = "cg_start"
    /\ IF args.no_link
       THEN obj_path' = args.path
       ELSE \E tmp \in TempDirs(args.platform) :
                obj_path' = Push(args.platform, tmp, ObjName)
    /\ pc' = "go_debug"
    /\ UNCHANGED <<inVars, result, goVars, lnk, fs, procs>>

\* mod.rs 717-719: remove the temporary object and return
CodegenRemoveObject ==
    /\ pc = "cg_remove"
    /\ \/ \* std::fs::remove_file(&obj_path)? returned Err
          /\ result' = "IoError"
          /\ UNCHANGED fs
       \/ /\ fs' = RemoveFile(fs, obj_path)
          /\ result' = "Ok"
    /\ pc' = "done"
    /\ UNCHANGED <<inVars, obj_path, goVars, lnk, procs>>

-----------------------------------------------------------------------------
(* The specifications *)

Args(entry, platform, no_link, static_lib, path, object_path, family) ==
    [entry |-> entry, platform |-> platform, no_link |-> no_link,
     static_lib |-> static_lib, path |-> path, obj_path |-> object_path,
     program |-> family]

\* paths given as &str: valid UTF-8
StrPaths ==
    {<<"C:", Backslash, "work", Backslash, "a.exe">>,
     <<"a.out">>,
     <<"C:", Backslash, "a", DQuote, "b.exe">>,
     <<"C:", Backslash, "O", SQuote, "Brien", Backslash, "a.exe">>,
     <<"C:", Backslash, "a", Caret, "b.exe">>,
     <<"C:", Backslash, "a", Control, "b.exe">>,
     <<"C:", Backslash, "out", Backslash>>}

\* paths given as &Path: any OsStr
OsPaths == StrPaths \cup {<<"C:", Backslash, Invalid, Backslash, "a.obj">>}

InitLocals ==
    /\ pc = CASE args.entry = "codegen" -> "cg_start"
              [] args.entry = "gen_object" -> "go_debug"
              [] args.entry = "link" -> "link_exe"
    /\ result = "none"
    /\ obj_path = IF args.entry = "codegen" THEN <<>> ELSE args.obj_path
    /\ code_set = EmptyCodeSet
    /\ debug = NoDebug
    /\ obj = EmptyObject
    /\ section_map = EmptyMap
    /\ data_id = 0
    /\ cur = NoCur
    /\ debug_chunks = <<>>
    /\ debug_section_map = EmptyMap
    /\ lnk = NoLnk
    /\ fs = {}
    /\ procs = <<>>

\* any of the three entry points, on a program of the family "driver"
Init ==
    /\ args \in
         {Args("codegen", platform, no_link, static_lib, path, <<>>, "driver") :
              platform \in Platforms, no_link \in BOOLEAN, static_lib \in BOOLEAN,
              path \in StrPaths}
         \cup {Args("link", platform, FALSE, static_lib, path, object_path, "driver") :
              platform \in Platforms, static_lib \in BOOLEAN, path \in StrPaths,
              object_path \in OsPaths}
         \cup {Args("gen_object", platform, FALSE, FALSE, <<>>, object_path, "driver") :
              platform \in Platforms, object_path \in OsPaths}
    /\ InitLocals

\* gen_object on a program of the family "object"
InitObject ==
    /\ args \in {Args("gen_object", "Linux", FALSE, FALSE, <<>>, <<"a.o">>, "object"),
                 Args("gen_object", "Windows", FALSE, FALSE, <<>>,
                      <<"C:", Backslash, "a", DQuote, "b.obj">>, "object")}
    /\ InitLocals

\* gen_object on a program of the family "types"
InitTypes ==
    /\ args \in {Args("gen_object", "Macos", FALSE, FALSE, <<>>, <<"a.o">>, "types")}
    /\ InitLocals

\* gen_object on a program of the family "strings"
InitStrings ==
    /\ args \in {Args("gen_object", "Linux", FALSE, FALSE, <<>>, <<"a.o">>, "strings")}
    /\ InitLocals

\* gen_object on a program of the family "debug"
InitDebug ==
    /\ args \in {Args("gen_object", "Linux", FALSE, FALSE, <<>>, <<"a.o">>, "debug")}
    /\ InitLocals

NextObject ==
    \/ GoNewDebugWriter
    \/ GoImport
    \/ GoGenCodeSet
    \/ GoFeedTypes
    \/ GoFeedClasses
    \/ GoGlobalSymbol
    \/ GoFeedGlobals
    \/ GoDefineChunk
    \/ GoRelocate
    \/ GoFinalize
    \/ GoDebugRelocate
    \/ GoWrite

LinkNext ==
    \/ LinkFindLibrary
    \/ LinkFindVcvarsall
    \/ LinkComposeBatch
    \/ LinkWriteBatch
    \/ LinkRunCmd
    \/ LinkRemoveBatch
    \/ LinkRunCc
    \/ LinkReport

Next ==
    \/ NextObject
    \/ LinkNext
    \/ CodegenObjPath
    \/ CodegenRemoveObject

Spec == Init /\ [][Next]_vars
SpecObject == InitObject /\ [][NextObject]_vars
SpecTypes == InitTypes /\ [][NextObject]_vars
SpecStrings == InitStrings /\ [][NextObject]_vars
SpecDebug == InitDebug /\ [][NextObject]_vars

-----------------------------------------------------------------------------
(* codegen and link: the temporary files and the vetting of the paths *)

\* the run was codegen with linking, and it is over
CodegenLinked == pc = "done" /\ args.entry = "codegen" /\ ~args.no_link

\* the linker (cc, or cmd running the batch file) ran and exited with a failure
LinkerFailed == procs # <<>> /\ ~procs[Len(procs)].success

\* C1: when the linker exits with a non-zero status, codegen returns an error and
\* the temporary object file is not deleted.
C1_LinkerFailureIsAnError ==
    (CodegenLinked /\ LinkerFailed)
        => (result \notin {"Ok", "none"} /\ Exists(fs, obj_path))

LinkPcs ==
    {"link_exe", "link_vcvars", "link_batch", "link_write_bat", "link_cmd",
     "link_rm_bat", "link_cc", "link_report"}

\* C2: when codegen with linking succeeds, no temporary file of the run remains:
\* the object file is there for as long as link runs and is removed after it, and
\* the batch file is there while cmd runs it and is removed after it.
C2_NoTemporaryFileRemains ==
    /\ (CodegenLinked /\ result = "Ok") => fs = {}
    /\ (args.entry = "codegen" /\ pc \in LinkPcs) => Exists(fs, obj_path)
    /\ pc \in {"link_cmd", "link_rm_bat"} => Exists(fs, lnk.bat_path)
    /\ pc = "link_report" => ~Exists(fs, lnk.bat_path)

\* codegen succeeded on Windows: the object and the batch file were written, cmd
\* ran the batch file, and both files are gone
C2_Witness ==
    /\ CodegenLinked /\ result = "Ok" /\ args.platform = "Windows"
    /\ Len(procs) = 1 /\ procs[1].program = "cmd" /\ procs[1].success
    /\ fs = {}

\* a path that cannot be put between double quotes in a batch file: it is not
\* valid Unicode, or holds a double quote, a single quote, a caret or a control
\* character, or ends with a backslash
HasDefect(p) ==
    \/ \E i \in 1..Len(p) : p[i] \in {Invalid, DQuote, SQuote, Caret, Control}
    \/ (p # <<>> /\ p[Len(p)] = Backslash)

\* the four paths of the batch file: vcvarsall.bat, the object file, the
\* standard library, the output
FourPaths == <<lnk.vcvarsall, obj_path, lnk.lib_path, args.path>>

\* C3: on Windows, when one of the four paths of the batch file has a defect, link
\* returns PathError, writes no batch file and starts no process; paths without a
\* defect are put in the batch file unchanged.
C3_PathsAreVetted ==
    [][pc = "link_batch" =>
          IF \E k \in 1..4 : HasDefect(FourPaths[k])
          THEN /\ pc' = "done"
               /\ result' = "PathError"
               /\ fs' = fs
               /\ procs' = procs
          ELSE /\ pc' = "link_write_bat"
               /\ \A k \in 1..4 : lnk'.batch[k] = FourPaths[k]]_vars

\* link was given an object path that ends with a backslash, and returned
\* PathError with no file written and no process started
C3_Witness ==
    /\ args.entry = "link" /\ args.platform = "Windows"
    /\ pc = "done" /\ result = "PathError"
    /\ HasDefect(obj_path) /\ obj_path[Len(obj_path)] = Backslash
    /\ \A i \in 1..Len(obj_path) : obj_path[i] \notin {Invalid, DQuote, SQuote, Caret, Control}
    /\ ~HasDefect(args.path)
    /\ fs = {} /\ procs = <<>>

-----------------------------------------------------------------------------
(* gen_object: the symbol table, the chunks and their relocations *)

\* the names of the chunks of the CodeSet
ChunkNameSet == {code_set.chunks[i].name : i \in 1..Len(code_set.chunks)}

\* the first loop over the chunks is over, and gen_object has not returned
ChunksDefined == pc \in {"go_reloc", "go_finalize", "go_debug_reloc", "go_write"}

ExternalNames ==
    {"$alloc_obj", "$div_zero", "$out_of_bound", "$none_op", "$len", "$input", "$print",
     "$init"}

\* C4: the external runtime symbols, $global and the symbol of every chunk are
\* defined before the first chunk relocation is emitted, so a link to a chunk of
\* the CodeSet (a later one, or the chunk itself) or to an external runtime symbol
\* resolves to an existing symbol and the lookup never fails.
C4_TwoPasses ==
    /\ (pc = "go_reloc" \/ obj.relocations # <<>>)
           => (ExternalNames \cup {"$global"} \cup ChunkNameSet) \subseteq DOMAIN obj.symbol_map
    /\ pc = "go_reloc" =>
           LET link == code_set.chunks[cur.i].links[cur.j] IN
           (link.to.tag = "Symbol" /\ link.to.name \in ExternalNames \cup ChunkNameSet)
               => /\ symbol_id(obj, link.to.name) \in 1..Len(obj.symbols)
                  /\ obj.symbols[symbol_id(obj, link.to.name)].name = link.to.name
    /\ result # "panic"

\* the first chunk holds a link to the second one, and its relocation was emitted
\* against the symbol of the second chunk
C4_Witness ==
    /\ pc = "go_finalize"
    /\ Len(code_set.chunks) = 2
    /\ Len(code_set.chunks[1].links) = 1
    /\ code_set.chunks[1].links[1].to.tag = "Symbol"
    /\ code_set.chunks[1].links[1].to.name = code_set.chunks[2].name
    /\ Len(obj.relocations) = 1
    /\ obj.symbols[obj.relocations[1].rel.symbol].name = code_set.chunks[2].name

\* the symbols defined by the module: those bound to a section
DefinedSymbols ==
    {k \in 1..Len(obj.symbols) : obj.symbols[k].section # Undefined}

\* C6: of the symbols defined by the module exactly one, $chocopy_main, has linkage
\* scope; $global, every other chunk symbol and every $str<N> has compilation scope.
C6_OneLinkageSymbol ==
    /\ \A k \in DefinedSymbols :
           obj.symbols[k].scope =
               IF obj.symbols[k].name = "$chocopy_main" THEN "Linkage" ELSE "Compilation"
    /\ ChunksDefined =>
           Cardinality({k \in DefinedSymbols : obj.symbols[k].scope = "Linkage"}) = 1

\* the object is about to be written; it holds $global, the entry point, another
\* procedure and a synthesized $str0
C6_Witness ==
    /\ pc = "go_write"
    /\ {"$global", "$chocopy_main", "$str0"} \subseteq
           {obj.symbols[k].name : k \in DefinedSymbols}
    /\ \E i \in 1..Len(code_set.chunks) :
           /\ code_set.chunks[i].name # "$chocopy_main"
           /\ code_set.chunks[i].extra.tag = "Procedure"

RECURSIVE LinksFrom(_, _)
\* the links of the chunks i.. in the order of the relocation loop, each as the
\* index of its chunk and its index in the chunk
LinksFrom(chunks, i) ==
    IF i > Len(chunks) THEN <<>>
    ELSE [j \in 1..Len(chunks[i].links) |-> [i |-> i, j |-> j]] \o LinksFrom(chunks, i + 1)

AllLinks == LinksFrom(code_set.chunks, 1)

\* the relocations emitted for chunk links so far: the object's first relocations
ChunkRelocations ==
    1..(IF Len(obj.relocations) < Len(AllLinks) THEN Len(obj.relocations)
        ELSE Len(AllLinks))

LinkChunk(k) == code_set.chunks[AllLinks[k].i]
LinkOf(k) == LinkChunk(k).links[AllLinks[k].j]
ChunkSymbol(chunk) == obj.symbols[obj.symbol_map[chunk.name]]

\* the addend a link carries: that of a Symbol target, none (0) for a Data target
LinkAddend(link) == IF link.to.tag = "Symbol" THEN link.to.addend ELSE 0

\* C8: the relocation of a link of a procedure is 32 bits wide, PC-relative, x86
\* RIP-relative, with the link's addend minus 4; that of a link of a data chunk is
\* 64 bits wide, absolute, generic, with the link's addend; its offset is the
\* chunk's offset in its section plus link.pos.
C8_RelocationRecords ==
    \A k \in ChunkRelocations :
        LET chunk == LinkChunk(k)
            link == LinkOf(k)
            r == obj.relocations[k]
        IN /\ r.section = ChunkSymbol(chunk).section
           /\ r.rel.offset = ChunkSymbol(chunk).value + link.pos
           /\ IF chunk.extra.tag = "Procedure"
              THEN /\ r.rel.size = 32
                   /\ r.rel.kind = "Relative"
                   /\ r.rel.encoding = "X86RipRelative"
                   /\ r.rel.addend = LinkAddend(link) - 4
              ELSE /\ r.rel.size = 64
                   /\ r.rel.kind = "Absolute"
                   /\ r.rel.encoding = "Generic"
                   /\ r.rel.addend = LinkAddend(link)

\* a procedure that does not start its section holds a link to a symbol with a
\* non-zero addend, and its relocation was emitted
C8_Witness ==
    /\ pc = "go_finalize"
    /\ \E k \in ChunkRelocations :
           /\ LinkChunk(k).extra.tag = "Procedure"
           /\ LinkOf(k).to.tag = "Symbol" /\ LinkOf(k).to.addend # 0
           /\ ChunkSymbol(LinkChunk(k)).value > 0
           /\ obj.relocations[k].rel.addend = LinkOf(k).to.addend - 4
           /\ obj.relocations[k].rel.offset > LinkOf(k).pos

\* the symbol a relocation targets
Target(k) == obj.symbols[obj.relocations[k].rel.symbol]

StrNames == {"$str" \o ToString(n) : n \in 0..Len(AllLinks)}

\* C9 as stated: the relocation of a link to Data(bytes) targets the synthesized
\* $str<N> symbol with addend 0, whatever the kind of the chunk that holds it.
C9_DataLinkAddendZero ==
    \A k \in ChunkRelocations :
        LinkOf(k).to.tag = "Data"
            => /\ Target(k).name \in StrNames
               /\ obj.relocations[k].rel.addend = 0

\* C9: the relocation of a link to Data(bytes) targets the synthesized $str<N>
\* symbol, a compilation-scope data symbol in the read-only section; its addend is
\* 0 when a data chunk holds the link and -4 when a procedure holds it.
C9_DataLinkTarget ==
    \A k \in ChunkRelocations :
        LinkOf(k).to.tag = "Data"
            => /\ Target(k).name \in StrNames
               /\ Target(k).section = "ReadOnlyData"
               /\ Target(k).kind = "Data"
               /\ Target(k).scope = "Compilation"
               /\ obj.relocations[k].rel.addend =
                      IF LinkChunk(k).extra.tag = "Procedure" THEN -4 ELSE 0

\* a procedure holds a link to Data(bytes) and its relocation was emitted against
\* $str0 with addend -4
C9_Witness ==
    /\ pc = "go_finalize"
    /\ \E k \in ChunkRelocations :
           /\ LinkOf(k).to.tag = "Data"
           /\ LinkChunk(k).extra.tag = "Procedure"
           /\ Target(k).name = "$str0"
           /\ obj.relocations[k].rel.addend = -4

\* the section, the alignment and the symbol kind of a chunk by its ChunkExtra
PlacedSection(chunk) ==
    CASE chunk.extra.tag = "Procedure" -> "Text"
      [] chunk.extra.tag = "Data" /\ chunk.extra.writable -> "Data"
      [] chunk.extra.tag = "Data" /\ ~chunk.extra.writable /\ chunk.links = <<>> ->
             "ReadOnlyData"
      [] chunk.extra.tag = "Data" /\ ~chunk.extra.writable /\ chunk.links # <<>> ->
             "ReadOnlyDataWithRel"

PlacedAlign(chunk) == IF chunk.extra.tag = "Procedure" THEN 1 ELSE 8

RECURSIVE PlacedEnd(_, _, _)
\* where the section ends once the chunks 1..i are placed
PlacedEnd(chunks, i, section) ==
    IF i = 0 THEN 0
    ELSE IF PlacedSection(chunks[i]) # section THEN PlacedEnd(chunks, i - 1, section)
    ELSE LET before == PlacedEnd(chunks, i - 1, section)
             align == PlacedAlign(chunks[i])
             start == CHOOSE n \in before..(before + align - 1) : n % align = 0
         IN start + Len(chunks[i].code)

\* the offset of chunk i: the first multiple of its alignment at or after the end
\* of the chunks placed in its section before it
PlacedOffset(chunks, i) ==
    LET before == PlacedEnd(chunks, i - 1, PlacedSection(chunks[i]))
        align == PlacedAlign(chunks[i])
    IN CHOOSE n \in before..(before + align - 1) : n % align = 0

\* the chunks whose symbol is defined
DefinedChunks ==
    {i \in 1..Len(code_set.chunks) :
        ChunksDefined \/ (pc = "go_chunk" /\ i < cur.i)}

\* C10: a procedure goes to the text section with alignment 1 and symbol kind
\* text; a writable data chunk to the data section, a read-only one to plain
\* read-only when it has no link and to read-only-with-relocations when it has
\* one, all with alignment 8 and symbol kind data; the symbol's size is len(code).
C10_ChunkPlacement ==
    \A i \in DefinedChunks :
        LET chunk == code_set.chunks[i]
            sym == ChunkSymbol(chunk)
        IN /\ sym.section = PlacedSection(chunk)
           /\ sym.kind = IF chunk.extra.tag = "Procedure" THEN "Text" ELSE "Data"
           /\ sym.size = Len(chunk.code)
           /\ sym.value = PlacedOffset(code_set.chunks, i)

\* an empty procedure has a text symbol of size 0, and a read-only data chunk with
\* a link is in the section with relocations
C10_Witness ==
    /\ pc = "go_finalize"
    /\ \E i \in DefinedChunks :
           /\ code_set.chunks[i].extra.tag = "Procedure"
           /\ code_set.chunks[i].code = <<>>
           /\ ChunkSymbol(code_set.chunks[i]).size = 0
           /\ ChunkSymbol(code_set.chunks[i]).section = "Text"
    /\ \E i \in DefinedChunks :
           /\ code_set.chunks[i].extra = ExtraData(FALSE)
           /\ code_set.chunks[i].links # <<>>
           /\ ChunkSymbol(code_set.chunks[i]).section = "ReadOnlyDataWithRel"

-----------------------------------------------------------------------------
(* gen_object: the representative types and the calls on the Debug Writer *)

BaseNames == {"int", "str", "bool", "object", "<None>"}

\* the types of a sequence of variables
TypesOf(vs) == {vs[i].var_type : i \in 1..Len(vs)}

\* every type a CodeSet uses: the return, parameter and local types of its
\* procedures, the types of its globals and of the attributes of its classes
ObservedTypes(cs) ==
    UNION {{cs.chunks[i].extra.procedure.return_type}
               \cup TypesOf(cs.chunks[i].extra.procedure.params)
               \cup TypesOf(cs.chunks[i].extra.procedure.locals) :
           i \in {k \in 1..Len(cs.chunks) : cs.chunks[k].extra.tag = "Procedure"}}
        \cup TypesOf(cs.globals_debug)
        \cup UNION {TypesOf(cs.classes_debug[c].attributes) : c \in DOMAIN cs.classes_debug}

RepresentedNames(cs) == {t.core_name : t \in ObservedTypes(cs)} \cup BaseNames

\* the greatest array level among the observed uses of a core name, 0 without a use
GreatestLevel(cs, name) ==
    LET levels == {t.array_level : t \in {u \in ObservedTypes(cs) : u.core_name = name}}
    IN IF levels = {} THEN 0 ELSE CHOOSE l \in levels : \A m \in levels : m <= l

\* the types were fed to the Debug Writer and gen_object has not returned
TypesFed ==
    pc \in {"go_classes", "go_global", "go_globals", "go_chunk", "go_reloc", "go_finalize",
            "go_debug_reloc", "go_write"}

\* the number of calls of one kind in the log of the Debug Writer
Count(call) == Cardinality({i \in 1..Len(debug.calls) : debug.calls[i] = call})

\* C7: used_types_representive yields exactly one representative for every core
\* name in use and for int, str, bool, object and <None>; its max_array_level is
\* the greatest array_level among the uses of the name, and 0 for a base name
\* that is not used.
C7_Representatives ==
    TypesFed =>
        /\ debug.types = {TypeDebugRepresentive(n, GreatestLevel(code_set, n)) :
                              n \in RepresentedNames(code_set)}
        /\ Count("add_type") = Cardinality(RepresentedNames(code_set))

\* a class name is used at several array levels, the deepest not being the last
\* one, and int and <None> are not used at all
C7_Witness ==
    /\ pc = "go_classes"
    /\ code_set.chunks[2].extra.procedure.return_type = TypeDebug("A", 1)
    /\ TypesOf(code_set.globals_debug) = {TypeDebug("A", 0)}
    /\ "int" \notin {t.core_name : t \in ObservedTypes(code_set)}
    /\ TypeDebugRepresentive("A", 1) \in debug.types
    /\ TypeDebugRepresentive("int", 0) \in debug.types
    /\ TypeDebugRepresentive("<None>", 0) \in debug.types

\* the place of a call in the order of the calls
Rank(call) ==
    CASE call = "add_type" -> 1
      [] call = "add_class" -> 2
      [] call = "add_global" -> 3
      [] call = "add_chunk" -> 4
      [] call = "finalize" -> 5

\* the calls are ordered: types, classes, globals, chunks, finalize
Ordered ==
    \A i, j \in 1..Len(debug.calls) :
        i < j => Rank(debug.calls[i]) <= Rank(debug.calls[j])

\* C5 as stated: in every run of gen_object the calls on the Debug Writer are
\* ordered add_type, add_class, add_global, add_chunk, and exactly one finalize.
C5_OneFinalizeInEveryRun ==
    (args.entry = "gen_object" /\ pc = "done")
        => (Ordered /\ Count("finalize") = 1)

\* the Debug Writer was finalized and gen_object has not returned
Finalized == pc \in {"go_debug_reloc", "go_write"}

\* C5: the calls on the Debug Writer are ordered add_type (one for every
\* representative type), add_class, add_global, add_chunk (one for every chunk,
\* in the order of the chunks), finalize; finalize is called at most once, after
\* it no call is made, and it is called exactly once in every run that gets past
\* the relocations of the chunks, so in every run that returns Ok.
C5_CallOrder ==
    /\ Ordered
    /\ Count("finalize") <= 1
    /\ (Finalized \/ result = "Ok") => Count("finalize") = 1
    /\ Finalized =>
           /\ Count("add_type") = Cardinality(RepresentedNames(code_set))
           /\ Count("add_class") = Cardinality(DOMAIN code_set.classes_debug)
           /\ Count("add_global") = Len(code_set.globals_debug)
           /\ Count("add_chunk") = Len(code_set.chunks)
           /\ debug.chunks = [i \in 1..Len(code_set.chunks) |-> code_set.chunks[i].name]
    /\ pc = "go_finalize" => Count("finalize") = 0

\* gen_object returned Ok after calls of every kind, the last one being finalize
C5_Witness ==
    /\ pc = "done" /\ result = "Ok"
    /\ \A call \in {"add_type", "add_class", "add_global", "add_chunk"} : Count(call) > 0
    /\ Count("add_chunk") = 2
    /\ debug.calls[Len(debug.calls)] = "finalize"

-----------------------------------------------------------------------------
(* gen_object: the names of the ad hoc data *)

\* the Data links among the first k - 1 links, in the order of the relocation loop
DataLinksBefore(k) == {m \in 1..(k - 1) : LinkOf(m).to.tag = "Data"}

RECURSIVE DataBytesBefore(_)
\* the bytes the Data links among the first k - 1 links carry
DataBytesBefore(k) ==
    IF k <= 1 THEN 0
    ELSE DataBytesBefore(k - 1)
         + (IF LinkOf(k - 1).to.tag = "Data" THEN Len(LinkOf(k - 1).to.data) ELSE 0)

\* where the plain read-only section ends once every chunk is placed
ReadOnlyEnd == PlacedEnd(code_set.chunks, Len(code_set.chunks), "ReadOnlyData")

\* the links the relocation loop has gone through
LinksDone == Cardinality(ChunkRelocations)

\* C11: the names of the ad hoc data come from one counter that starts at 0 and
\* grows by 1 with every Data link and with no other link: the k-th Data link met
\* (from 0, over all chunks in chunk order and link order) defines a new
\* compilation-scope data symbol $str<k> in the plain read-only section at the
\* offset where its bytes were appended, and the names are pairwise distinct.
C11_StrCounter ==
    /\ \A k \in ChunkRelocations :
           LinkOf(k).to.tag = "Data" =>
               /\ Target(k).name = "$str" \o ToString(Cardinality(DataLinksBefore(k)))
               /\ Target(k).scope = "Compilation"
               /\ Target(k).kind = "Data"
               /\ Target(k).section = "ReadOnlyData"
               /\ Target(k).value = ReadOnlyEnd + DataBytesBefore(k)
               /\ obj.symbol_map[Target(k).name] = obj.relocations[k].rel.symbol
    /\ \A k, m \in ChunkRelocations :
           (k # m /\ LinkOf(k).to.tag = "Data" /\ LinkOf(m).to.tag = "Data")
               => /\ Target(k).name # Target(m).name
                  /\ obj.relocations[k].rel.symbol # obj.relocations[m].rel.symbol
    /\ pc \in {"go_reloc", "go_finalize"} =>
           /\ data_id = Cardinality(DataLinksBefore(LinksDone + 1))
           /\ Cardinality({i \in 1..Len(obj.symbols) : obj.symbols[i].name \in StrNames})
                  = data_id

\* a link to a symbol came first, then Data links in both chunks: $str0 and $str1
\* are defined, $str1 behind the bytes of $str0
C11_Witness ==
    /\ pc = "go_finalize"
    /\ Len(AllLinks) >= 3
    /\ LinkOf(1).to.tag = "Symbol"
    /\ \E k, m \in ChunkRelocations :
           /\ k < m
           /\ AllLinks[k].i # AllLinks[m].i
           /\ Target(k).name = "$str0"
           /\ Target(m).name = "$str1"
           /\ Target(m).value = Target(k).value + Len(LinkOf(k).to.data)
    /\ data_id = 2

-----------------------------------------------------------------------------
(* gen_object: the relocations of the debug chunks *)

\* the links of the debug chunks in the order of their relocation loop
DebugLinks == LinksFrom(debug_chunks, 1)

DebugLinkOf(k) == debug_chunks[DebugLinks[k].i].links[DebugLinks[k].j]

\* the relocations emitted for debug links so far: those after the chunks' ones
DebugRelocations ==
    IF debug_chunks = <<>> THEN {} ELSE 1..(Len(obj.relocations) - Len(AllLinks))

\* C12: whatever byte count (0..255) the size field of a DebugChunkLink holds,
\* the width of the emitted relocation is 8 times that size, with no overflow or
\* wrap-around: gen_object does not panic on the product, and the record holds it.
C12_WidthIsEightTimesSize ==
    /\ result # "panic"
    /\ \A k \in DebugRelocations :
           obj.relocations[Len(AllLinks) + k].rel.size = 8 * DebugLinkOf(k).size

-----------------------------------------------------------------------------
(* codegen: when the linker runs *)

GoPcs ==
    {"go_debug", "go_import", "go_code_set", "go_types", "go_classes", "go_global",
     "go_globals", "go_chunk", "go_reloc", "go_finalize", "go_debug_reloc", "go_write"}

\* the object file is on disk, completely written
ObjectComplete == [path |-> obj_path, content |-> ObjectContent] \in fs

\* no file on disk before the step is gone after it
NothingDeleted == \A f \in fs : \E g \in fs' : g.path = f.path

\* C13: in codegen the linker is invoked only when no_link is false and gen_object
\* has returned success, the object file being completely written; with no_link
\* the object goes to the requested path and codegen neither invokes the linker
\* nor deletes a file; when gen_object fails codegen returns the error without
\* invoking the linker or deleting anything; and the object file is created only
\* after all chunk and debug relocations were emitted.
C13_LinkerAfterObject ==
    [][args.entry = "codegen" =>
          \* link is entered, and a process started, only with the complete object
          /\ pc' \in LinkPcs => (~args.no_link /\ ObjectComplete')
          /\ (pc \in GoPcs /\ pc' \in LinkPcs) => pc = "go_write"
          /\ procs' # procs => (~args.no_link /\ pc \in LinkPcs /\ ObjectComplete)
          \* no_link: the requested path, no linker, no deletion
          /\ args.no_link =>
                 /\ pc' \notin LinkPcs \cup {"cg_remove"}
                 /\ procs' = <<>>
                 /\ obj_path' = args.path
                 /\ NothingDeleted
                 /\ (pc' = "done" /\ result' = "Ok") => ObjectComplete'
          \* gen_object fails: the error is returned, no linker, no deletion
          /\ (pc \in GoPcs /\ pc' \notin GoPcs \cup LinkPcs) =>
                 /\ pc' = "done"
                 /\ procs' = <<>>
                 /\ NothingDeleted
                 /\ result' \in {"PathError", "ObjectError", "IoError"}
                        \/ (result' = "Ok" /\ args.no_link)
          \* the object file is created by the last step of gen_object
          /\ pc \in GoPcs =>
                 /\ fs = {}
                 /\ fs' # fs =>
                        /\ pc = "go_write"
                        /\ Len(obj.relocations) = Len(AllLinks) + Len(DebugLinks)]_vars

\* codegen has run the linker: gen_object had returned Ok and the complete object
\* is at its temporary path
C13_Witness ==
    /\ args.entry = "codegen" /\ ~args.no_link
    /\ pc = "link_report"
    /\ Len(procs) = 1
    /\ ObjectComplete
    /\ obj_path # args.path

=============================================================================
